---- MODULE Spec2Model ----
(***************************************************************************)
(* A model of the school-management API's core app: the academic-year     *)
(* endpoints (create / update / partial_update / destroy / activate /     *)
(* for_date / current) and the course endpoints with the prerequisite     *)
(* graph (create / update / partial_update / destroy / add_prerequisite / *)
(* remove_prerequisite), and of the students app's student-document        *)
(* endpoints (create / update / partial_update / destroy / verify).        *)
(*                                                                         *)
(* Tables are functions whose DOMAIN is the set of stored primary keys.    *)
(* Dates are day numbers.  A request payload is a function whose DOMAIN    *)
(* is the set of fields the request carries, so that the source's          *)
(* `'start_date' in data` reads "start_date" \in DOMAIN data.  The name,   *)
(* description and credit_hours columns are left out: no handler modelled  *)
(* here reads them.                                                        *)
(***************************************************************************)
EXTENDS Integers, FiniteSets, Sequences, TLC

\* ------------------------------------------------------------- bounds
NumYears == 2
MaxDate == 2
NumCourses == 3
NumRequests == 2
\* The days of the calendar on which the model methods of a year are computed.
MaxDay == 31

YearIds == 1..NumYears
Dates == 1..MaxDate
CourseIds == 1..NumCourses
Requests == 1..NumRequests
Days == 1..MaxDay

\* The value of a primary key / parameter that a request does not carry.
None == 0

VARIABLES
    academic_years,   \* table AcademicYear: pk -> [start_date, end_date, is_active]
    courses,          \* table Course: pk -> [code, academic_year, prerequisites]
    resp,             \* the response of the last request served
    reqs,             \* the activate requests in flight (concurrent specification)
    chk,              \* the call stack of one circular-reference check
    students,         \* table Student: the primary keys of its rows
    documents         \* table StudentDocument: pk -> [student, document_type]

vars == <<academic_years, courses, resp, reqs, chk, students, documents>>

\* ------------------------------------------------------------ helpers
\* detail tags the message of an error response ("" on success).
Response(op, status, detail, pk, arg, body) ==
    [op |-> op, status |-> status, detail |-> detail,
     pk |-> pk, arg |-> arg, body |-> body]

\* data.get(name, old)
Field(data, name, old) == IF name \in DOMAIN data THEN data[name] ELSE old

Remove(table, pks) == [k \in DOMAIN table \ pks |-> table[k]]

ActiveYears == {y \in DOMAIN academic_years : academic_years[y].is_active}

\* ----------------------------------------------------- AcademicYear model
\* The range check with an exclusive end date.
is_date_in_range_exclusive_end(year, date) ==
    (date >= year.start_date) /\ (date < year.end_date)

is_date_in_range(year, date) ==
    (date >= year.start_date) /\ (date <= year.end_date)

\* is_current_year with the first day excluded.
is_current_year_exclusive_start(year, today) ==
    IF ~year.is_active
    THEN FALSE
    ELSE today > year.start_date /\ today <= year.end_date

\* today is the value date.today() returns during the call.
is_current_year(year, today) ==
    IF ~year.is_active
    THEN FALSE
    ELSE today >= year.start_date /\ today <= year.end_date

\* get_duration_in_days counting the days between the bounds only.
get_duration_in_days_without_last_day(year) ==
    IF year.start_date = None \/ year.end_date = None
    THEN 0
    ELSE year.end_date - year.start_date

\* A date is a day number, so the days of a difference of dates are the
\* difference of the numbers; a date that is not set is None.
get_duration_in_days(year) ==
    IF year.start_date = None \/ year.end_date = None
    THEN 0
    ELSE (year.end_date - year.start_date) + 1

\* ------------------------------------------------ AcademicYearSerializer
\* The payloads of an academic-year write: any subset of the writable fields.
YearData ==
    { d @@ a : d \in UNION {[F -> Dates] : F \in SUBSET {"start_date", "end_date"}},
               a \in UNION {[F -> BOOLEAN] : F \in SUBSET {"is_active"}} }

\* validate(): TRUE when no ValidationError is raised.
AcademicYearSerializer_validate(data) ==
    ~ ( "start_date" \in DOMAIN data /\ "end_date" \in DOMAIN data
        /\ data["start_date"] > data["end_date"] )

\* is_valid(): the required fields (start_date, end_date have no default and
\* are not blank) unless the update is partial, then validate().
AcademicYearSerializer_is_valid(data, partial) ==
    /\ partial \/ {"start_date", "end_date"} \subseteq DOMAIN data
    /\ AcademicYearSerializer_validate(data)

\* Course rows that go with a set of deleted courses: the rows themselves and
\* the rows of the prerequisites through-table that name them on either side.
CascadeCourses(pks) ==
    [c \in DOMAIN courses \ pks |->
        [courses[c] EXCEPT !.prerequisites = @ \ pks]]

\* The read-only field duration_in_days of a year's representation.
duration_in_days(pk) ==
    /\ pk \in DOMAIN academic_years
    /\ resp' = Response("duration_in_days", None, "", pk, None,
                        get_duration_in_days(academic_years[pk]))
    /\ UNCHANGED <<academic_years, courses, reqs, chk, students, documents>>

\* The read-only field is_current of a year's representation. Comparing
\* today with a date that is not set raises TypeError.
is_current(pk, today) ==
    /\ pk \in DOMAIN academic_years
    /\ LET year == academic_years[pk]
       IN  IF year.is_active
              /\ (year.start_date = None
                  \/ (today >= year.start_date /\ year.end_date = None))
           THEN resp' = Response("is_current", None, "TypeError", pk, today, {})
           ELSE resp' = Response("is_current", None, "", pk, today,
                                 is_current_year(year, today))
    /\ UNCHANGED <<academic_years, courses, reqs, chk, students, documents>>

\* --------------------------------------------------- AcademicYearViewSet
\* pk is the uuid4 the new row draws as its primary key: one no row has.
AcademicYear_create(pk, data) ==
    /\ pk \notin DOMAIN academic_years
    /\ IF ~AcademicYearSerializer_is_valid(data, FALSE)
       THEN /\ resp' = Response("create", 400, "invalid", None, None, {})
            /\ UNCHANGED academic_years
       ELSE /\ academic_years' = academic_years @@
                   (pk :> [start_date |-> data["start_date"],
                           end_date |-> data["end_date"],
                           is_active |-> Field(data, "is_active", FALSE)])
            /\ resp' = Response("create", 201, "", pk, None, {pk})
    /\ UNCHANGED <<courses, reqs, chk, students, documents>>

\* ModelSerializer.update: every field of validated_data is set, then save().
AcademicYear_perform_update(op, pk, data, partial) ==
    /\ IF pk \notin DOMAIN academic_years
       THEN /\ resp' = Response(op, 404, "not_found", pk, None, {})
            /\ UNCHANGED academic_years
       ELSE IF ~AcademicYearSerializer_is_valid(data, partial)
       THEN /\ resp' = Response(op, 400, "invalid", pk, None, {})
            /\ UNCHANGED academic_years
       ELSE /\ academic_years' = [academic_years EXCEPT ![pk] =
                   [start_date |-> Field(data, "start_date", @.start_date),
                    end_date |-> Field(data, "end_date", @.end_date),
                    is_active |-> Field(data, "is_active", @.is_active)]]
            /\ resp' = Response(op, 200, "", pk, None, {pk})
    /\ UNCHANGED <<courses, reqs, chk, students, documents>>

AcademicYear_update(pk, data) ==
    AcademicYear_perform_update("update", pk, data, FALSE)

AcademicYear_partial_update(pk, data) ==
    AcademicYear_perform_update("partial_update", pk, data, TRUE)

\* Course.academic_year is on_delete=CASCADE.
AcademicYear_destroy(pk) ==
    /\ IF pk \notin DOMAIN academic_years
       THEN /\ resp' = Response("destroy", 404, "not_found", pk, None, {})
            /\ UNCHANGED <<academic_years, courses>>
       ELSE /\ academic_years' = Remove(academic_years, {pk})
            /\ courses' = CascadeCourses(
                   {c \in DOMAIN courses : courses[c].academic_year = pk})
            /\ resp' = Response("destroy", 204, "", pk, None, {})
    /\ UNCHANGED <<reqs, chk, students, documents>>

\* activate() without its bulk update of the other years.
activate_without_exclude_update(pk) ==
    /\ IF pk \notin DOMAIN academic_years
       THEN /\ resp' = Response("activate", 404, "not_found", pk, None, {})
            /\ UNCHANGED academic_years
       ELSE /\ academic_years' = [academic_years EXCEPT ![pk].is_active = TRUE]
            /\ resp' = Response("activate", 200, "", pk, None, {pk})
    /\ UNCHANGED <<courses, reqs, chk, students, documents>>

\* activate() running its bulk update before it resolves the year.
activate_update_before_get_object(pk) ==
    /\ IF pk \notin DOMAIN academic_years
       THEN /\ academic_years' =
                   [y \in DOMAIN academic_years |->
                       [academic_years[y] EXCEPT !.is_active = FALSE]]
            /\ resp' = Response("activate", 404, "not_found", pk, None, {})
       ELSE /\ academic_years' =
                   [y \in DOMAIN academic_years |->
                       IF y = pk
                       THEN [academic_years[y] EXCEPT !.is_active = TRUE]
                       ELSE [academic_years[y] EXCEPT !.is_active = FALSE]]
            /\ resp' = Response("activate", 200, "", pk, None, {pk})
    /\ UNCHANGED <<courses, reqs, chk, students, documents>>

\* The three statements of activate(), served with no other request between them.
activate(pk) ==
    /\ IF pk \notin DOMAIN academic_years
       THEN /\ resp' = Response("activate", 404, "not_found", pk, None, {})
            /\ UNCHANGED academic_years
       ELSE /\ academic_years' =
                   [y \in DOMAIN academic_years |->
                       IF y = pk
                       THEN [academic_years[y] EXCEPT !.is_active = TRUE]
                       ELSE [academic_years[y] EXCEPT !.is_active = FALSE]]
            /\ resp' = Response("activate", 200, "", pk, None, {pk})
    /\ UNCHANGED <<courses, reqs, chk, students, documents>>

\* The ?date= parameter: None when missing or empty, -1 when it is no ISO
\* date, else the date it parses to.
DateParams == {None, -1} \cup Dates

\* for_date() without its branch for an empty list of matching years.
for_date_without_not_found(param) ==
    /\ IF param = None
       THEN resp' = Response("for_date", 400, "required", None, param, {})
       ELSE IF param \notin Dates
       THEN resp' = Response("for_date", 400, "invalid", None, param, {})
       ELSE resp' = Response("for_date", 200, "", None, param,
                             {y \in DOMAIN academic_years :
                                 is_date_in_range(academic_years[y], param)})
    /\ UNCHANGED <<academic_years, courses, reqs, chk, students, documents>>

for_date(param) ==
    /\ IF param = None
       THEN resp' = Response("for_date", 400, "required", None, param, {})
       ELSE IF param \notin Dates
       THEN resp' = Response("for_date", 400, "invalid", None, param, {})
       ELSE LET matching_years ==
                    {y \in DOMAIN academic_years :
                        is_date_in_range(academic_years[y], param)}
            IN  IF matching_years = {}
                THEN resp' = Response("for_date", 404, "not_found", None, param, {})
                ELSE resp' = Response("for_date", 200, "", None, param, matching_years)
    /\ UNCHANGED <<academic_years, courses, reqs, chk, students, documents>>

\* AcademicYear.objects.get(is_active=True): DoesNotExist is caught,
\* MultipleObjectsReturned is not and ends the request with a server error.
current ==
    /\ IF ActiveYears = {}
       THEN resp' = Response("current", 404, "not_found", None, None, {})
       ELSE IF Cardinality(ActiveYears) = 1
       THEN resp' = Response("current", 200, "",
                             CHOOSE y \in ActiveYears : TRUE, None, ActiveYears)
       ELSE resp' = Response("current", 500, "multiple", None, None, {})
    /\ UNCHANGED <<academic_years, courses, reqs, chk, students, documents>>

\* ------------------------------------------------------------ Course model
NumCodes == 3
Codes == 1..NumCodes

\* course.prerequisites.all(): Meta.ordering is by name; the model takes the
\* courses to be named in the order of their primary keys.
RECURSIVE prerequisites_all(_)
prerequisites_all(pks) ==
    IF pks = {} THEN <<>>
    ELSE LET first == CHOOSE p \in pks : \A q \in pks : p <= q
         IN  <<first>> \o prerequisites_all(pks \ {first})

\* course.required_for.all(): the reverse accessor of prerequisites
\* (related_name='required_for'), read from the same through-table.
required_for_all(pk) == {c \in DOMAIN courses : pk \in courses[c].prerequisites}

\* ------------------------------------------- CourseCreateUpdateSerializer
\* The payloads of a course write: any subset of the modelled writable fields.
\* academic_year and prerequisites are primary keys, stored or not.
CourseData ==
    { c @@ y @@ p :
        c \in UNION {[F -> Codes] : F \in SUBSET {"code"}},
        y \in UNION {[F -> YearIds] : F \in SUBSET {"academic_year"}},
        p \in UNION {[F -> SUBSET CourseIds] : F \in SUBSET {"prerequisites"}} }

\* _check_circular_reference(course, prerequisite, visited): the value
\* returned and the visited set, which the recursive calls share.
RECURSIVE check_circular_reference(_, _, _)
RECURSIVE check_circular_reference_loop(_, _, _)
check_circular_reference(course, prerequisite, visited) ==
    IF course \in visited
    THEN [ret |-> FALSE, visited |-> visited]
    ELSE IF course \in courses[prerequisite].prerequisites
    THEN [ret |-> TRUE, visited |-> visited \cup {course}]
    ELSE check_circular_reference_loop(
             course, prerequisites_all(courses[prerequisite].prerequisites),
             visited \cup {course})

\* The for loop over the prerequisite's prerequisites.
check_circular_reference_loop(course, todo, visited) ==
    IF todo = <<>>
    THEN [ret |-> FALSE, visited |-> visited]
    ELSE LET r == check_circular_reference(course, Head(todo), visited)
         IN  IF r.ret THEN r
             ELSE check_circular_reference_loop(course, Tail(todo), r.visited)

\* validate() without its test for the course among its own prerequisites.
validate_without_self_reference(instance, data) ==
    IF instance # None /\ "prerequisites" \in DOMAIN data
    THEN IF \E prereq \in data["prerequisites"] :
                check_circular_reference(instance, prereq, {}).ret
         THEN "circular"
         ELSE ""
    ELSE ""

\* validate(): "" when no ValidationError is raised, else which one.
\* instance is None on create.
CourseCreateUpdateSerializer_validate(instance, data) ==
    IF instance # None /\ "prerequisites" \in DOMAIN data
    THEN IF instance \in data["prerequisites"]
         THEN "self_reference"
         ELSE IF \E prereq \in data["prerequisites"] :
                     check_circular_reference(instance, prereq, {}).ret
         THEN "circular"
         ELSE ""
    ELSE ""

\* The field validation that comes before validate(): required fields
\* unless partial, code unique (Course.code is unique=True), the related
\* rows exist, then unique_together (code, academic_year), each against the
\* rows other than the instance.
CourseCreateUpdateSerializer_fields_valid(instance, data, partial) ==
    /\ partial \/ {"code", "academic_year"} \subseteq DOMAIN data
    /\ "code" \in DOMAIN data =>
          \A c \in DOMAIN courses \ {instance} : courses[c].code # data["code"]
    /\ "academic_year" \in DOMAIN data =>
          data["academic_year"] \in DOMAIN academic_years
    /\ "prerequisites" \in DOMAIN data =>
          data["prerequisites"] \subseteq DOMAIN courses
    /\ ({"code", "academic_year"} \cap DOMAIN data # {}
            /\ (instance # None \/ {"code", "academic_year"} \subseteq DOMAIN data)) =>
          LET code == Field(data, "code",
                            IF instance = None THEN None ELSE courses[instance].code)
              year == Field(data, "academic_year",
                            IF instance = None THEN None
                            ELSE courses[instance].academic_year)
          IN  \A c \in DOMAIN courses \ {instance} :
                  ~(courses[c].code = code /\ courses[c].academic_year = year)

CourseCreateUpdateSerializer_is_valid(instance, data, partial) ==
    IF ~CourseCreateUpdateSerializer_fields_valid(instance, data, partial)
    THEN "invalid"
    ELSE CourseCreateUpdateSerializer_validate(instance, data)

\* ----------------------------------------------------------- CourseViewSet
\* pk is the uuid4 the new row draws as its primary key: one no row has.
Course_create(pk, data) ==
    /\ pk \notin DOMAIN courses
    /\ LET error == CourseCreateUpdateSerializer_is_valid(None, data, FALSE)
       IN  IF error # ""
           THEN /\ resp' = Response("course_create", 400, error, None, None, {})
                /\ UNCHANGED courses
           ELSE /\ courses' = courses @@
                       (pk :> [code |-> data["code"],
                               academic_year |-> data["academic_year"],
                               prerequisites |-> Field(data, "prerequisites", {})])
                /\ resp' = Response("course_create", 201, "", pk, None, {})
    /\ UNCHANGED <<academic_years, reqs, chk, students, documents>>

\* ModelSerializer.update: the fields of validated_data are set and saved,
\* a many-to-many field by field.set(value).
Course_perform_update(op, pk, data, partial) ==
    /\ IF pk \notin DOMAIN courses
       THEN /\ resp' = Response(op, 404, "not_found", pk, None, {})
            /\ UNCHANGED courses
       ELSE LET error == CourseCreateUpdateSerializer_is_valid(pk, data, partial)
            IN  IF error # ""
                THEN /\ resp' = Response(op, 400, error, pk, None, {})
                     /\ UNCHANGED courses
                ELSE /\ courses' = [courses EXCEPT ![pk] =
                            [code |-> Field(data, "code", @.code),
                             academic_year |-> Field(data, "academic_year", @.academic_year),
                             prerequisites |-> Field(data, "prerequisites", @.prerequisites)]]
                     /\ resp' = Response(op, 200, "", pk, None, {})
    /\ UNCHANGED <<academic_years, reqs, chk, students, documents>>

Course_update(pk, data) ==
    Course_perform_update("course_update", pk, data, FALSE)

Course_partial_update(pk, data) ==
    Course_perform_update("course_partial_update", pk, data, TRUE)

\* destroy() leaving the rows of the prerequisites through-table in place.
Course_destroy_keeping_edges(pk) ==
    /\ IF pk \notin DOMAIN courses
       THEN /\ resp' = Response("course_destroy", 404, "not_found", pk, None, {})
            /\ UNCHANGED courses
       ELSE /\ courses' = Remove(courses, {pk})
            /\ resp' = Response("course_destroy", 204, "", pk, None, {})
    /\ UNCHANGED <<academic_years, reqs, chk, students, documents>>

Course_destroy(pk) ==
    /\ IF pk \notin DOMAIN courses
       THEN /\ resp' = Response("course_destroy", 404, "not_found", pk, None, {})
            /\ UNCHANGED courses
       ELSE /\ courses' = CascadeCourses({pk})
            /\ resp' = Response("course_destroy", 204, "", pk, None, {})
    /\ UNCHANGED <<academic_years, reqs, chk, students, documents>>

\* add_prerequisite without its check for the reverse edge.
add_prerequisite_without_circular_check(pk, prerequisite_id) ==
    /\ IF pk \notin DOMAIN courses
       THEN /\ resp' = Response("add_prerequisite", 404, "not_found",
                                pk, prerequisite_id, {})
            /\ UNCHANGED courses
       ELSE IF prerequisite_id = None
       THEN /\ resp' = Response("add_prerequisite", 400, "required",
                                pk, prerequisite_id, {})
            /\ UNCHANGED courses
       ELSE IF prerequisite_id \notin DOMAIN courses
       THEN /\ resp' = Response("add_prerequisite", 404, "prerequisite_not_found",
                                pk, prerequisite_id, {})
            /\ UNCHANGED courses
       ELSE IF pk = prerequisite_id
       THEN /\ resp' = Response("add_prerequisite", 400, "self_reference",
                                pk, prerequisite_id, {})
            /\ UNCHANGED courses
       ELSE /\ courses' = [courses EXCEPT ![pk].prerequisites =
                                              @ \cup {prerequisite_id}]
            /\ resp' = Response("add_prerequisite", 200, "",
                                pk, prerequisite_id, {})
    /\ UNCHANGED <<academic_years, reqs, chk, students, documents>>

\* add_prerequisite adding the edge before its two checks.
add_prerequisite_before_checks(pk, prerequisite_id) ==
    /\ IF pk \notin DOMAIN courses
       THEN /\ resp' = Response("add_prerequisite", 404, "not_found",
                                pk, prerequisite_id, {})
            /\ UNCHANGED courses
       ELSE IF prerequisite_id = None
       THEN /\ resp' = Response("add_prerequisite", 400, "required",
                                pk, prerequisite_id, {})
            /\ UNCHANGED courses
       ELSE IF prerequisite_id \notin DOMAIN courses
       THEN /\ resp' = Response("add_prerequisite", 404, "prerequisite_not_found",
                                pk, prerequisite_id, {})
            /\ UNCHANGED courses
       ELSE /\ courses' = [courses EXCEPT ![pk].prerequisites =
                                              @ \cup {prerequisite_id}]
            /\ resp' = Response("add_prerequisite",
                   IF pk = prerequisite_id
                      \/ pk \in courses[prerequisite_id].prerequisites
                   THEN 400 ELSE 200,
                   IF pk = prerequisite_id THEN "self_reference"
                   ELSE IF pk \in courses[prerequisite_id].prerequisites
                   THEN "circular" ELSE "",
                   pk, prerequisite_id, {})
    /\ UNCHANGED <<academic_years, reqs, chk, students, documents>>

\* add_prerequisite refusing an edge that exists already.
add_prerequisite_rejecting_existing(pk, prerequisite_id) ==
    /\ IF pk \notin DOMAIN courses
       THEN /\ resp' = Response("add_prerequisite", 404, "not_found",
                                pk, prerequisite_id, {})
            /\ UNCHANGED courses
       ELSE IF prerequisite_id = None
       THEN /\ resp' = Response("add_prerequisite", 400, "required",
                                pk, prerequisite_id, {})
            /\ UNCHANGED courses
       ELSE IF prerequisite_id \notin DOMAIN courses
       THEN /\ resp' = Response("add_prerequisite", 404, "prerequisite_not_found",
                                pk, prerequisite_id, {})
            /\ UNCHANGED courses
       ELSE IF pk = prerequisite_id
       THEN /\ resp' = Response("add_prerequisite", 400, "self_reference",
                                pk, prerequisite_id, {})
            /\ UNCHANGED courses
       ELSE IF pk \in courses[prerequisite_id].prerequisites
       THEN /\ resp' = Response("add_prerequisite", 400, "circular",
                                pk, prerequisite_id, {})
            /\ UNCHANGED courses
       ELSE IF prerequisite_id \in courses[pk].prerequisites
       THEN /\ resp' = Response("add_prerequisite", 400, "already_a_prerequisite",
                                pk, prerequisite_id, {})
            /\ UNCHANGED courses
       ELSE /\ courses' = [courses EXCEPT ![pk].prerequisites =
                                              @ \cup {prerequisite_id}]
            /\ resp' = Response("add_prerequisite", 200, "",
                                pk, prerequisite_id, {})
    /\ UNCHANGED <<academic_years, reqs, chk, students, documents>>

\* prerequisite_id is None when the request body does not carry it.
add_prerequisite(pk, prerequisite_id) ==
    /\ IF pk \notin DOMAIN courses
       THEN /\ resp' = Response("add_prerequisite", 404, "not_found",
                                pk, prerequisite_id, {})
            /\ UNCHANGED courses
       ELSE IF prerequisite_id = None
       THEN /\ resp' = Response("add_prerequisite", 400, "required",
                                pk, prerequisite_id, {})
            /\ UNCHANGED courses
       ELSE IF prerequisite_id \notin DOMAIN courses
       THEN /\ resp' = Response("add_prerequisite", 404, "prerequisite_not_found",
                                pk, prerequisite_id, {})
            /\ UNCHANGED courses
       ELSE IF pk = prerequisite_id
       THEN /\ resp' = Response("add_prerequisite", 400, "self_reference",
                                pk, prerequisite_id, {})
            /\ UNCHANGED courses
       ELSE IF pk \in courses[prerequisite_id].prerequisites
       THEN /\ resp' = Response("add_prerequisite", 400, "circular",
                                pk, prerequisite_id, {})
            /\ UNCHANGED courses
       ELSE /\ courses' = [courses EXCEPT ![pk].prerequisites =
                                              @ \cup {prerequisite_id}]
            /\ resp' = Response("add_prerequisite", 200, "",
                                pk, prerequisite_id, {})
    /\ UNCHANGED <<academic_years, reqs, chk, students, documents>>

\* remove_prerequisite without the check that the edge exists.
remove_prerequisite_without_exists_check(pk, prerequisite_id) ==
    /\ IF pk \notin DOMAIN courses
       THEN /\ resp' = Response("remove_prerequisite", 404, "not_found",
                                pk, prerequisite_id, {})
            /\ UNCHANGED courses
       ELSE IF prerequisite_id = None
       THEN /\ resp' = Response("remove_prerequisite", 400, "required",
                                pk, prerequisite_id, {})
            /\ UNCHANGED courses
       ELSE IF prerequisite_id \notin DOMAIN courses
       THEN /\ resp' = Response("remove_prerequisite", 404, "prerequisite_not_found",
                                pk, prerequisite_id, {})
            /\ UNCHANGED courses
       ELSE /\ courses' = [courses EXCEPT ![pk].prerequisites =
                                              @ \ {prerequisite_id}]
            /\ resp' = Response("remove_prerequisite", 200, "",
                                pk, prerequisite_id, {})
    /\ UNCHANGED <<academic_years, reqs, chk, students, documents>>

remove_prerequisite(pk, prerequisite_id) ==
    /\ IF pk \notin DOMAIN courses
       THEN /\ resp' = Response("remove_prerequisite", 404, "not_found",
                                pk, prerequisite_id, {})
            /\ UNCHANGED courses
       ELSE IF prerequisite_id = None
       THEN /\ resp' = Response("remove_prerequisite", 400, "required",
                                pk, prerequisite_id, {})
            /\ UNCHANGED courses
       ELSE IF prerequisite_id \notin DOMAIN courses
       THEN /\ resp' = Response("remove_prerequisite", 404, "prerequisite_not_found",
                                pk, prerequisite_id, {})
            /\ UNCHANGED courses
       ELSE IF prerequisite_id \notin courses[pk].prerequisites
       THEN /\ resp' = Response("remove_prerequisite", 400, "not_a_prerequisite",
                                pk, prerequisite_id, {})
            /\ UNCHANGED courses
       ELSE /\ courses' = [courses EXCEPT ![pk].prerequisites =
                                              @ \ {prerequisite_id}]
            /\ resp' = Response("remove_prerequisite", 200, "",
                                pk, prerequisite_id, {})
    /\ UNCHANGED <<academic_years, reqs, chk, students, documents>>

\* ------------------------------------------- Student, StudentDocument
NumStudents == 2
NumDocuments == 2
StudentIds == 1..NumStudents
DocumentIds == 1..NumDocuments

\* DocumentType.choices
DocumentType == {"ID_CARD", "BIRTH_CERTIFICATE", "PASSPORT"}

\* The payloads of a document write: any subset of the two fields of the
\* unique_together pair, document_type being any string, a choice or not.
\* The other fields take part in no constraint and are left out.
DocumentData ==
    { s @@ t :
        s \in UNION {[F -> StudentIds] : F \in SUBSET {"student"}},
        t \in UNION {[F -> DocumentType \cup {"OTHER"}] :
                        F \in SUBSET {"document_type"}} }

\* The rows other than the instance that hold the pair (student,
\* document_type) the write would store: the fields the payload does not
\* carry are read from the instance.
DocumentsWithSamePair(instance, data) ==
    {d \in DOMAIN documents \ {instance} :
        /\ documents[d].student =
              Field(data, "student",
                    IF instance = None THEN None ELSE documents[instance].student)
        /\ documents[d].document_type =
              Field(data, "document_type",
                    IF instance = None THEN "" ELSE documents[instance].document_type)}

\* is_valid() without the validator of unique_together.
is_valid_without_unique_together(instance, data, partial) ==
    IF ~ /\ partial \/ {"student", "document_type"} \subseteq DOMAIN data
         /\ "student" \in DOMAIN data => data["student"] \in students
         /\ "document_type" \in DOMAIN data => data["document_type"] \in DocumentType
    THEN "invalid"
    ELSE ""

\* is_valid() of the ModelSerializer: the fields (both required unless the
\* update is partial, the student a stored row, the type one of the
\* choices), then the validator of unique_together. "" when valid.
StudentDocumentCreateUpdateSerializer_is_valid(instance, data, partial) ==
    IF ~ /\ partial \/ {"student", "document_type"} \subseteq DOMAIN data
         /\ "student" \in DOMAIN data => data["student"] \in students
         /\ "document_type" \in DOMAIN data => data["document_type"] \in DocumentType
    THEN "invalid"
    ELSE IF DocumentsWithSamePair(instance, data) # {}
    THEN "unique"
    ELSE ""

\* valid: whether the student's own fields pass validation.
Student_create(pk, valid) ==
    /\ pk \notin students
    /\ IF ~valid
       THEN /\ resp' = Response("student_create", 400, "invalid", None, None, {})
            /\ UNCHANGED students
       ELSE /\ students' = students \cup {pk}
            /\ resp' = Response("student_create", 201, "", pk, None, {})
    /\ UNCHANGED <<academic_years, courses, reqs, chk, documents>>

\* StudentDocument.student is on_delete=CASCADE.
Student_destroy(pk) ==
    /\ IF pk \notin students
       THEN /\ resp' = Response("student_destroy", 404, "not_found", pk, None, {})
            /\ UNCHANGED <<students, documents>>
       ELSE /\ students' = students \ {pk}
            /\ documents' = Remove(documents,
                                   {d \in DOMAIN documents : documents[d].student = pk})
            /\ resp' = Response("student_destroy", 204, "", pk, None, {})
    /\ UNCHANGED <<academic_years, courses, reqs, chk>>

\* pk is the uuid4 the new row draws as its primary key: one no row has.
StudentDocument_create(pk, data) ==
    /\ pk \notin DOMAIN documents
    /\ LET error == StudentDocumentCreateUpdateSerializer_is_valid(None, data, FALSE)
       IN  IF error # ""
           THEN /\ resp' = Response("document_create", 400, error, None, data, {})
                /\ UNCHANGED documents
           ELSE /\ documents' = documents @@
                       (pk :> [student |-> data["student"],
                               document_type |-> data["document_type"]])
                /\ resp' = Response("document_create", 201, "", pk, data, {})
    /\ UNCHANGED <<academic_years, courses, reqs, chk, students>>

StudentDocument_perform_update(op, pk, data, partial) ==
    /\ IF pk \notin DOMAIN documents
       THEN /\ resp' = Response(op, 404, "not_found", pk, data, {})
            /\ UNCHANGED documents
       ELSE LET error == StudentDocumentCreateUpdateSerializer_is_valid(pk, data, partial)
            IN  IF error # ""
                THEN /\ resp' = Response(op, 400, error, pk, data, {})
                     /\ UNCHANGED documents
                ELSE /\ documents' = [documents EXCEPT ![pk] =
                            [student |-> Field(data, "student", @.student),
                             document_type |-> Field(data, "document_type",
                                                     @.document_type)]]
                     /\ resp' = Response(op, 200, "", pk, data, {})
    /\ UNCHANGED <<academic_years, courses, reqs, chk, students>>

StudentDocument_update(pk, data) ==
    StudentDocument_perform_update("document_update", pk, data, FALSE)

StudentDocument_partial_update(pk, data) ==
    StudentDocument_perform_update("document_partial_update", pk, data, TRUE)

StudentDocument_destroy(pk) ==
    /\ IF pk \notin DOMAIN documents
       THEN /\ resp' = Response("document_destroy", 404, "not_found", pk, None, {})
            /\ UNCHANGED documents
       ELSE /\ documents' = Remove(documents, {pk})
            /\ resp' = Response("document_destroy", 204, "", pk, None, {})
    /\ UNCHANGED <<academic_years, courses, reqs, chk, students>>

\* verify() sets is_verified, verification_date and verification_notes and
\* saves the row: student and document_type are written back as read.
verify(pk) ==
    /\ IF pk \notin DOMAIN documents
       THEN resp' = Response("verify", 404, "not_found", pk, None, {})
       ELSE resp' = Response("verify", 200, "", pk, None, {})
    /\ UNCHANGED <<academic_years, courses, reqs, chk, students, documents>>

\* ------------------------------------- activate(), statement by statement
\* Requests are served by concurrent workers and the view opens no
\* transaction: each of its three statements is a database round trip of
\* its own, and other requests' statements may come between them.

\* academic_year = self.get_object()
activate_get_object(r, pk) ==
    /\ reqs[r].pc = "idle"
    /\ IF pk \notin DOMAIN academic_years
       THEN /\ reqs' = [reqs EXCEPT ![r].pc = "done"]
            /\ resp' = Response("activate", 404, "not_found", pk, None, {})
       ELSE /\ reqs' = [reqs EXCEPT ![r] =
                   [pc |-> "get_object", pk |-> pk,
                    start_date |-> academic_years[pk].start_date,
                    end_date |-> academic_years[pk].end_date]]
            /\ UNCHANGED resp
    /\ UNCHANGED <<academic_years, courses, chk, students, documents>>

\* AcademicYear.objects.exclude(pk=academic_year.pk).update(is_active=False)
activate_exclude_update(r) ==
    /\ reqs[r].pc = "get_object"
    /\ academic_years' =
           [y \in DOMAIN academic_years |->
               IF y = reqs[r].pk
               THEN academic_years[y]
               ELSE [academic_years[y] EXCEPT !.is_active = FALSE]]
    /\ reqs' = [reqs EXCEPT ![r].pc = "update"]
    /\ UNCHANGED <<courses, resp, chk, students, documents>>

\* academic_year.is_active = True; academic_year.save(): every column of the
\* row is written from the object loaded by get_object.
activate_save(r) ==
    /\ reqs[r].pc = "update"
    /\ academic_years' =
           (reqs[r].pk :> [start_date |-> reqs[r].start_date,
                           end_date |-> reqs[r].end_date,
                           is_active |-> TRUE]) @@ academic_years
    /\ reqs' = [reqs EXCEPT ![r].pc = "done"]
    /\ resp' = Response("activate", 200, "", reqs[r].pk, None, {reqs[r].pk})
    /\ UNCHANGED <<courses, chk, students, documents>>

\* ----------------------- _check_circular_reference(), statement by statement
\* chk.stack holds one frame per call in progress (the last is the running
\* one), chk.visited the set the calls share, chk.ret the value a call has
\* just returned to its caller ("none" while a call is running).
MaxStack == 4

Frame(prerequisite) == [prerequisite |-> prerequisite, pc |-> "call", todo |-> <<>>]

Top == chk.stack[Len(chk.stack)]
Pop == SubSeq(chk.stack, 1, Len(chk.stack) - 1)
SetTop(frame) == [chk.stack EXCEPT ![Len(chk.stack)] = frame]

\* A check with no guard on the visited set.
check_without_visited_guard == FALSE

\* The guard on the visited set.
check_visited_guard == chk.course \in chk.visited

\* From the entry of a call to its first return or to the head of its loop.
check_call ==
    /\ chk.stack # <<>>
    /\ Top.pc = "call"
    /\ IF check_visited_guard
       THEN chk' = [chk EXCEPT !.stack = Pop, !.ret = "False"]
       ELSE IF chk.course \in courses[Top.prerequisite].prerequisites
       THEN chk' = [chk EXCEPT !.stack = Pop, !.ret = "True",
                               !.visited = @ \cup {chk.course}]
       ELSE chk' = [chk EXCEPT
                !.visited = @ \cup {chk.course},
                !.stack = SetTop([Top EXCEPT
                    !.pc = "loop",
                    !.todo = prerequisites_all(
                                 courses[Top.prerequisite].prerequisites)])]
    /\ UNCHANGED <<academic_years, courses, resp, reqs, students, documents>>

\* The head of the for loop: the next recursive call, or the return after
\* the last one.  A call MaxStack frames deep stands for the interpreter's
\* recursion limit and ends the check with RecursionError.
check_loop ==
    /\ chk.stack # <<>>
    /\ Top.pc = "loop"
    /\ chk.ret = "none"
    /\ IF Top.todo = <<>>
       THEN chk' = [chk EXCEPT !.stack = Pop, !.ret = "False"]
       ELSE IF Len(chk.stack) >= MaxStack
       THEN chk' = [chk EXCEPT !.stack = <<>>, !.ret = "RecursionError"]
       ELSE chk' = [chk EXCEPT !.stack =
                Append(SetTop([Top EXCEPT !.todo = Tail(@)]),
                       Frame(Head(Top.todo)))]
    /\ UNCHANGED <<academic_years, courses, resp, reqs, students, documents>>

\* The if on the value the recursive call returned.
check_return ==
    /\ chk.stack # <<>>
    /\ Top.pc = "loop"
    /\ chk.ret # "none"
    /\ IF chk.ret = "True"
       THEN chk' = [chk EXCEPT !.stack = Pop]
       ELSE chk' = [chk EXCEPT !.ret = "none"]
    /\ UNCHANGED <<academic_years, courses, resp, reqs, students, documents>>

check_done == chk.course # None /\ chk.stack = <<>> /\ chk.ret # "none"

\* The next top-level call with a visited set kept from the call before (a
\* default argument evaluated once).
check_start_keeping_visited(course, prerequisite) ==
    /\ check_done
    /\ course # prerequisite
    /\ resp' = Response("_check_circular_reference", None, chk.ret,
                        chk.course, chk.prerequisite, {})
    /\ chk' = [stack |-> <<Frame(prerequisite)>>, visited |-> chk.visited,
               course |-> course, prerequisite |-> prerequisite, ret |-> "none"]
    /\ UNCHANGED <<academic_years, courses, reqs, students, documents>>

\* validate() takes the value the top-level call returned (kept in resp) and
\* makes its next top-level call: visited is not passed, so it is None and
\* the call starts with a new empty set.
check_start(course, prerequisite) ==
    /\ check_done
    /\ course # prerequisite
    /\ resp' = Response("_check_circular_reference", None, chk.ret,
                        chk.course, chk.prerequisite, {})
    /\ chk' = [stack |-> <<Frame(prerequisite)>>, visited |-> {},
               course |-> course, prerequisite |-> prerequisite, ret |-> "none"]
    /\ UNCHANGED <<academic_years, courses, reqs, students, documents>>

\* --------------------------- add_prerequisite(), reads and write apart
\* As activate(), add_prerequisite() opens no transaction: the queries that
\* resolve and check the two courses and the insert of the edge are database
\* round trips of their own, and other requests' statements may come between
\* them. In the specification of concurrent adds a request in flight is
\* [pc, pk, prerequisite_id].

\* get_object(), Course.objects.get(pk=prerequisite_id) and the two checks.
add_prerequisite_checks(r, pk, prerequisite_id) ==
    /\ reqs[r].pc = "idle"
    /\ LET detail ==
               IF pk \notin DOMAIN courses THEN "not_found"
               ELSE IF prerequisite_id = None THEN "required"
               ELSE IF prerequisite_id \notin DOMAIN courses
               THEN "prerequisite_not_found"
               ELSE IF pk = prerequisite_id THEN "self_reference"
               ELSE IF pk \in courses[prerequisite_id].prerequisites
               THEN "circular"
               ELSE ""
       IN  IF detail # ""
           THEN /\ reqs' = [reqs EXCEPT ![r] =
                       [pc |-> "done", pk |-> pk, prerequisite_id |-> prerequisite_id]]
                /\ resp' = Response("add_prerequisite",
                       IF detail \in {"not_found", "prerequisite_not_found"}
                       THEN 404 ELSE 400,
                       detail, pk, prerequisite_id, {})
           ELSE /\ reqs' = [reqs EXCEPT ![r] =
                       [pc |-> "add", pk |-> pk, prerequisite_id |-> prerequisite_id]]
                /\ UNCHANGED resp
    /\ UNCHANGED <<academic_years, courses, chk, students, documents>>

\* course.prerequisites.add(prerequisite)
add_prerequisite_add(r) ==
    /\ reqs[r].pc = "add"
    /\ courses' = [courses EXCEPT ![reqs[r].pk].prerequisites =
                                     @ \cup {reqs[r].prerequisite_id}]
    /\ resp' = Response("add_prerequisite", 200, "",
                        reqs[r].pk, reqs[r].prerequisite_id, {})
    /\ reqs' = [reqs EXCEPT ![r].pc = "done"]
    /\ UNCHANGED <<academic_years, chk, students, documents>>

\* ------------------------------------------------------- specification
NoRequests == [r \in Requests |-> [pc |-> "idle", pk |-> None,
                                   start_date |-> None, end_date |-> None]]
NoCheck == [stack |-> <<>>, visited |-> {}, course |-> None,
            prerequisite |-> None, ret |-> "none"]

Init ==
    /\ academic_years = <<>>
    /\ courses = <<>>
    /\ resp = Response("none", 0, "", None, None, {})
    /\ reqs = NoRequests
    /\ chk = NoCheck
    /\ students = {}
    /\ documents = <<>>

Next ==
    \/ \E pk \in YearIds, data \in YearData : AcademicYear_create(pk, data)
    \/ \E pk \in YearIds, data \in YearData : AcademicYear_update(pk, data)
    \/ \E pk \in YearIds, data \in YearData : AcademicYear_partial_update(pk, data)
    \/ \E pk \in YearIds : AcademicYear_destroy(pk)
    \/ \E pk \in YearIds : activate(pk)
    \/ \E param \in DateParams : for_date(param)
    \/ current

Spec == Init /\ [][Next]_vars

\* The course API over the prerequisite graph.  Its requests name one
\* academic year, and a course's code after its primary key, so that every
\* payload passes the field validation unless it names a course not stored.
YearOfCourses == [start_date |-> 1, end_date |-> MaxDate]

PrerequisitesData ==
    UNION {[F -> SUBSET CourseIds] : F \in SUBSET {"prerequisites"}}

GraphData(pk, p) == [code |-> pk, academic_year |-> 1] @@ p

NextCourse ==
    \/ AcademicYear_create(1, YearOfCourses)
    \/ AcademicYear_destroy(1)
    \/ \E pk \in CourseIds, p \in PrerequisitesData :
           Course_create(pk, GraphData(pk, p))
    \/ \E pk \in CourseIds, p \in PrerequisitesData :
           Course_update(pk, GraphData(pk, p))
    \/ \E pk \in CourseIds, p \in PrerequisitesData :
           Course_partial_update(pk, p)
    \/ \E pk \in CourseIds : Course_destroy(pk)
    \/ \E pk \in CourseIds, prerequisite_id \in CourseIds \cup {None} :
           add_prerequisite(pk, prerequisite_id)
    \/ \E pk \in CourseIds, prerequisite_id \in CourseIds \cup {None} :
           remove_prerequisite(pk, prerequisite_id)

SpecCourse == Init /\ [][NextCourse]_vars

\* The course API on the codes and academic years of courses, the
\* prerequisites left out of every payload.
CatalogData == {data \in CourseData : "prerequisites" \notin DOMAIN data}

NextCatalog ==
    \/ \E pk \in YearIds : AcademicYear_create(pk, YearOfCourses)
    \/ \E pk \in YearIds : AcademicYear_destroy(pk)
    \/ \E pk \in CourseIds, data \in CatalogData : Course_create(pk, data)
    \/ \E pk \in CourseIds, data \in CatalogData : Course_update(pk, data)
    \/ \E pk \in CourseIds, data \in CatalogData : Course_partial_update(pk, data)
    \/ \E pk \in CourseIds : Course_destroy(pk)

SpecCatalog == Init /\ [][NextCatalog]_vars

\* The student and student-document API.
NextDocuments ==
    \/ \E pk \in StudentIds, valid \in BOOLEAN : Student_create(pk, valid)
    \/ \E pk \in StudentIds : Student_destroy(pk)
    \/ \E pk \in DocumentIds, data \in DocumentData : StudentDocument_create(pk, data)
    \/ \E pk \in DocumentIds, data \in DocumentData : StudentDocument_update(pk, data)
    \/ \E pk \in DocumentIds, data \in DocumentData :
           StudentDocument_partial_update(pk, data)
    \/ \E pk \in DocumentIds : StudentDocument_destroy(pk)
    \/ \E pk \in DocumentIds : verify(pk)

SpecDocuments == Init /\ [][NextDocuments]_vars

\* The two model methods of AcademicYear on one instance (pk 1), stored or
\* just constructed: a constructed instance may have a date not set yet.
InitYear ==
    /\ academic_years \in [{1} -> [start_date : {None} \cup Days,
                                    end_date : {None} \cup Days,
                                    is_active : BOOLEAN]]
    /\ courses = <<>>
    /\ resp = Response("none", 0, "", None, None, {})
    /\ reqs = NoRequests
    /\ chk = NoCheck
    /\ students = {}
    /\ documents = <<>>

NextYear ==
    \/ duration_in_days(1)
    \/ \E today \in Days : is_current(1, today)

SpecYear == InitYear /\ [][NextYear]_vars

\* Concurrent activate requests on a store of years, at most one of them
\* active, each request running the three statements of activate() once.
InitActivate ==
    /\ \E stored \in SUBSET YearIds :
           academic_years \in [stored -> [start_date : {1}, end_date : {MaxDate},
                                          is_active : BOOLEAN]]
    /\ Cardinality(ActiveYears) <= 1
    /\ courses = <<>>
    /\ resp = Response("none", 0, "", None, None, {})
    /\ reqs = NoRequests
    /\ chk = NoCheck
    /\ students = {}
    /\ documents = <<>>

NextActivate ==
    \/ \E r \in Requests, pk \in YearIds : activate_get_object(r, pk)
    \/ \E r \in Requests : activate_exclude_update(r)
    \/ \E r \in Requests : activate_save(r)

SpecActivate == InitActivate /\ [][NextActivate]_vars

\* One top-level call _check_circular_reference(course, prerequisite) made by
\* validate() on any stored graph, cyclic ones included (the admin site
\* writes prerequisites with no validation).  A call that has started runs
\* on: the interpreter does not stop between two statements.
InitCheck ==
    /\ academic_years = (1 :> (YearOfCourses @@ [is_active |-> FALSE]))
    /\ \E g \in [CourseIds -> SUBSET CourseIds] :
           courses = [c \in CourseIds |->
                         [code |-> c, academic_year |-> 1, prerequisites |-> g[c]]]
    /\ resp = Response("none", 0, "", None, None, {})
    /\ reqs = NoRequests
    /\ students = {}
    /\ documents = <<>>
    /\ \E course \in CourseIds : \E prerequisite \in CourseIds \ {course} :
           chk = [stack |-> <<Frame(prerequisite)>>, visited |-> {},
                  course |-> course, prerequisite |-> prerequisite,
                  ret |-> "none"]

NextCheck == check_call \/ check_loop \/ check_return

SpecCheck == InitCheck /\ [][NextCheck]_vars /\ WF_vars(NextCheck)

\* Concurrent add_prerequisite requests on the stored courses, no course
\* having a prerequisite yet, each request running its statements once.
InitAdd ==
    /\ academic_years = (1 :> (YearOfCourses @@ [is_active |-> FALSE]))
    /\ courses = [c \in CourseIds |->
                     [code |-> c, academic_year |-> 1, prerequisites |-> {}]]
    /\ resp = Response("none", 0, "", None, None, {})
    /\ reqs = [r \in Requests |->
                  [pc |-> "idle", pk |-> None, prerequisite_id |-> None]]
    /\ chk = NoCheck
    /\ students = {}
    /\ documents = <<>>

NextAdd ==
    \/ \E r \in Requests, pk \in CourseIds, prerequisite_id \in CourseIds \cup {None} :
           add_prerequisite_checks(r, pk, prerequisite_id)
    \/ \E r \in Requests : add_prerequisite_add(r)

SpecAdd == InitAdd /\ [][NextAdd]_vars

\* Top-level calls of the check one after the other on a stored graph, any
\* graph in which no course is its own prerequisite.
InitValidator ==
    /\ academic_years = (1 :> (YearOfCourses @@ [is_active |-> FALSE]))
    /\ \E g \in [CourseIds -> SUBSET CourseIds] :
           /\ \A c \in CourseIds : c \notin g[c]
           /\ courses = [c \in CourseIds |->
                            [code |-> c, academic_year |-> 1, prerequisites |-> g[c]]]
    /\ resp = Response("none", 0, "", None, None, {})
    /\ reqs = NoRequests
    /\ students = {}
    /\ documents = <<>>
    /\ \E course \in CourseIds : \E prerequisite \in CourseIds \ {course} :
           chk = [stack |-> <<Frame(prerequisite)>>, visited |-> {},
                  course |-> course, prerequisite |-> prerequisite,
                  ret |-> "none"]

NextValidator ==
    \/ check_call
    \/ check_loop
    \/ check_return
    \/ \E course \in CourseIds, prerequisite \in CourseIds :
           check_start(course, prerequisite)

SpecValidator == InitValidator /\ [][NextValidator]_vars

\* The statement-by-statement check returns what the recursive definition
\* computes.
CheckAgrees ==
    check_done =>
        chk.ret = IF check_circular_reference(chk.course, chk.prerequisite, {}).ret
                  THEN "True" ELSE "False"

\* ============================================================ properties
\* The prerequisite graph: an edge from a course to each of its prerequisites.
Prerequisites(c) == IF c \in DOMAIN courses THEN courses[c].prerequisites ELSE {}

RECURSIVE Closure(_)
Closure(S) ==
    LET T == S \cup UNION {Prerequisites(c) : c \in S}
    IN  IF T = S THEN S ELSE Closure(T)

\* The courses a course reaches by following one or more prerequisite edges.
Reachable(c) == Closure(Prerequisites(c))

Acyclic == \A c \in DOMAIN courses : c \notin Reachable(c)

\* C1: after any sequence of course operations from the empty graph, no
\* course reaches itself by following one or more prerequisite edges.
C1_GraphAcyclic == Acyclic

\* C2: add_prerequisite(course, p) is rejected with the cycle error, and adds
\* no edge, whenever course is reachable from p over a path of any length.
C2_AddRejectsEveryPath ==
    [][ ( /\ resp'.op = "add_prerequisite"
          /\ resp'.pk \in DOMAIN courses
          /\ resp'.arg \in DOMAIN courses
          /\ resp'.pk # resp'.arg
          /\ resp'.pk \in Reachable(resp'.arg) )
        => ( /\ resp'.status = 400
             /\ resp'.detail = "circular"
             /\ courses' = courses ) ]_vars

\* C3: on every acyclic graph, for every stored course C and every set P of
\* stored courses, the update-time validator accepts exactly when C is not in
\* P and C is reachable from no p in P.
C3_ValidatorDecidesReachability ==
    Acyclic =>
        \A c \in DOMAIN courses, P \in SUBSET DOMAIN courses :
            (CourseCreateUpdateSerializer_validate(c, [prerequisites |-> P]) = "")
                <=> (c \notin P /\ \A q \in P : c \notin Reachable(q))

\* C4: after any sequence of academic-year operations served one at a time,
\* at most one academic year is active.
C4_AtMostOneActive == Cardinality(ActiveYears) <= 1

\* C5: once all concurrent activate requests have finished, whatever the
\* interleaving of their statements, at most one academic year is active.
C5_AtMostOneActiveAfterActivates ==
    (\A r \in Requests : reqs[r].pc = "done") => Cardinality(ActiveYears) <= 1

\* C6: an activate(Y) served without interference ends with Y the one active
\* year: every year active before and other than Y is inactive afterwards,
\* and no year is added or removed.
C6_ActivateLeavesTargetOnlyActive ==
    [][ (resp'.op = "activate" /\ resp'.status = 200)
        => ( /\ ActiveYears' = {resp'.pk}
             /\ DOMAIN academic_years' = DOMAIN academic_years
             /\ \A y \in ActiveYears \ {resp'.pk} :
                    ~academic_years'[y].is_active ) ]_vars

C6_Witness ==
    /\ resp.op = "activate"
    /\ resp.status = 200
    /\ Cardinality(DOMAIN academic_years) >= 2
    /\ ActiveYears = {resp.pk}

\* C7: create, update and partial update of an academic year leave the
\* is_active flag of every stored year unchanged and store no active year.
C7_OnlyActivateChangesActive ==
    [][ resp'.op \in {"create", "update", "partial_update"}
        => ( /\ \A y \in DOMAIN academic_years :
                    academic_years'[y].is_active = academic_years[y].is_active
             /\ \A y \in DOMAIN academic_years' \ DOMAIN academic_years :
                    ~academic_years'[y].is_active ) ]_vars

\* A request that would make a stored course its own prerequisite: an
\* add_prerequisite with the course's own id, or an update or partial update
\* of the course whose prerequisites list holds the course.
\* (Every response names the operation and the course of its request.)
SelfReferenceAttempt(pk, p) ==
    /\ pk \in DOMAIN courses
    /\ resp'.pk = pk
    /\ \/ resp'.op = "add_prerequisite" /\ add_prerequisite(pk, pk)
       \/ /\ resp'.op \in {"course_update", "course_partial_update"}
          /\ "prerequisites" \in DOMAIN p
          /\ pk \in p["prerequisites"]
          /\ IF resp'.op = "course_update"
             THEN Course_update(pk, GraphData(pk, p))
             ELSE Course_partial_update(pk, p)

\* C8 as stated: every attempt to make a course its own prerequisite fails
\* with the self-reference error (HTTP 400) and changes no prerequisite set.
C8_SelfReferenceErrorAlways ==
    [][ \A pk \in CourseIds, p \in PrerequisitesData :
            SelfReferenceAttempt(pk, p)
            => ( /\ resp'.status = 400
                 /\ resp'.detail = "self_reference"
                 /\ courses' = courses ) ]_vars

\* C8 as amended: every such attempt fails with HTTP 400 and changes no
\* prerequisite set; the error is the self-reference error unless the
\* update's list also names a course that is not stored, which the field
\* validation rejects before validate() runs.
C8_SelfReferenceRejected ==
    [][ \A pk \in CourseIds, p \in PrerequisitesData :
            SelfReferenceAttempt(pk, p)
            => ( /\ resp'.status = 400
                 /\ courses' = courses
                 /\ resp'.detail =
                        IF resp'.op # "add_prerequisite"
                           /\ ~(p["prerequisites"] \subseteq DOMAIN courses)
                        THEN "invalid" ELSE "self_reference" ) ]_vars

C8_Witness ==
    /\ resp.op = "course_partial_update"
    /\ resp.status = 400
    /\ resp.detail = "self_reference"
    /\ courses[resp.pk].prerequisites # {}

\* C9: every call of _check_circular_reference, on any stored graph, cyclic
\* ones included, eventually returns a boolean.
C9_CheckTerminates == <>(check_done /\ chk.ret \in {"True", "False"})

\* A finished check whose candidate prerequisite lies on a cycle.
C9_Witness ==
    /\ check_done
    /\ chk.prerequisite \in Reachable(chk.prerequisite)
    /\ chk.course \notin Reachable(chk.prerequisite)
    /\ chk.ret = "False"

\* The last request was for_date with a date that no stored year contains.
ForDateNoMatch ==
    /\ resp.op = "for_date"
    /\ resp.arg \in Dates
    /\ \A y \in DOMAIN academic_years :
           ~(academic_years[y].start_date <= resp.arg
             /\ resp.arg <= academic_years[y].end_date)

C11_ForDateReturnsContainingYears ==
    (resp.op = "for_date" /\ resp.arg \in Dates)
        => /\ resp.body = {y \in DOMAIN academic_years :
                             /\ academic_years[y].start_date <= resp.arg
                             /\ resp.arg <= academic_years[y].end_date}
           /\ resp.status = IF resp.body = {} THEN 404 ELSE 200

\* Two overlapping years are both returned, the date being the last day of
\* one and the first day of the other.
C11_Witness ==
    /\ resp.op = "for_date"
    /\ resp.status = 200
    /\ Cardinality(resp.body) >= 2
    /\ \E y \in resp.body : academic_years[y].end_date = resp.arg
    /\ \E y \in resp.body : academic_years[y].start_date = resp.arg
                              /\ academic_years[y].end_date > resp.arg

\* C12: add_prerequisite changes the graph only on success. A call that ends
\* in an error (prerequisite_id missing: 400; the course or the prerequisite
\* does not resolve: 404; self-reference or cycle: 400) leaves every course's
\* prerequisites as they were; a successful call adds the edge
\* (course -> prerequisite) and changes nothing else.
C12_AddChangesGraphOnlyOnSuccess ==
    [][resp'.op = "add_prerequisite"
       => /\ resp'.status \in {200, 400, 404}
          /\ resp'.status = 404
                <=> (resp'.pk \notin DOMAIN courses
                     \/ (resp'.arg # None /\ resp'.arg \notin DOMAIN courses))
          /\ resp'.detail \in {"required", "self_reference", "circular"}
                => resp'.status = 400
          /\ IF resp'.status = 200
             THEN courses' = [courses EXCEPT ![resp'.pk].prerequisites =
                                                @ \cup {resp'.arg}]
             ELSE courses' = courses]_vars

\* A call rejected as circular, on a course that has prerequisites.
C12_Witness ==
    /\ resp.op = "add_prerequisite"
    /\ resp.status = 400
    /\ resp.detail = "circular"
    /\ resp.pk \in courses[resp.arg].prerequisites
    /\ courses[resp.pk].prerequisites # {}

\* C13: remove_prerequisite(course, p) fails with the edge-not-found error
\* (400) and changes nothing when the edge (course -> p) between the stored
\* courses does not exist, and otherwise succeeds and removes exactly that
\* edge, every other edge staying; an id p that resolves to no course is
\* answered not-found (404), nothing changing either.
C13_RemoveExactlyTheEdge ==
    [][(/\ resp'.op = "remove_prerequisite"
        /\ resp'.pk \in DOMAIN courses
        /\ resp'.arg \in CourseIds)
       => IF resp'.arg \notin DOMAIN courses
          THEN /\ resp'.status = 404
               /\ courses' = courses
          ELSE IF resp'.arg \notin courses[resp'.pk].prerequisites
          THEN /\ resp'.status = 400
               /\ resp'.detail = "not_a_prerequisite"
               /\ courses' = courses
          ELSE /\ resp'.status = 200
               /\ courses' = [courses EXCEPT ![resp'.pk].prerequisites =
                                                 @ \ {resp'.arg}]]_vars

\* An edge was removed from a course that keeps another prerequisite, and
\* the removed course keeps its own prerequisites.
C13_Witness ==
    /\ resp.op = "remove_prerequisite"
    /\ resp.status = 200
    /\ resp.arg \notin courses[resp.pk].prerequisites
    /\ courses[resp.pk].prerequisites # {}
    /\ courses[resp.arg].prerequisites # {}

\* C14: adding an edge (course -> p) that exists already succeeds and leaves
\* the graph unchanged, and a successful remove_prerequisite leaves no edge
\* (course -> p).
C14_ReAddIsNoOp ==
    [][/\ (/\ resp'.op = "add_prerequisite"
           /\ resp'.pk \in DOMAIN courses
           /\ resp'.arg \in courses[resp'.pk].prerequisites)
          => (resp'.status = 200 /\ courses' = courses)
       /\ (resp'.op = "remove_prerequisite" /\ resp'.status = 200)
          => resp'.arg \notin courses'[resp'.pk].prerequisites]_vars

\* A successful add of an edge on a course that has a second prerequisite.
C14_Witness ==
    /\ resp.op = "add_prerequisite"
    /\ resp.status = 200
    /\ resp.arg \in courses[resp.pk].prerequisites
    /\ courses[resp.pk].prerequisites # {resp.arg}

\* C15: whatever academic-year create, update and partial update requests
\* were served, every stored year has start_date <= end_date.
C15_StartNotAfterEnd ==
    \A y \in DOMAIN academic_years :
        academic_years[y].start_date <= academic_years[y].end_date

\* C16: the duration in days of a year is end_date - start_date + 1 when both
\* dates are set (31 from day 1 to day 31, 1 when they are equal) and 0 when
\* either is not set; no field of the year stores it.
C16_DurationInDays ==
    resp.op = "duration_in_days"
        => LET year == academic_years[resp.pk]
           IN  /\ (year.start_date \in Days /\ year.end_date \in Days)
                      => resp.body = year.end_date - year.start_date + 1
               /\ (year.start_date = 1 /\ year.end_date = 31) => resp.body = 31
               /\ (year.start_date \in Days /\ year.end_date = year.start_date)
                      => resp.body = 1
               /\ (year.start_date \notin Days \/ year.end_date \notin Days)
                      => resp.body = 0
               /\ DOMAIN year = {"start_date", "end_date", "is_active"}

\* The duration of the year from day 1 to day 31 was computed as 31.
C16_Witness ==
    /\ resp.op = "duration_in_days"
    /\ academic_years[resp.pk].start_date = 1
    /\ academic_years[resp.pk].end_date = 31
    /\ resp.body = 31

\* C17: a year with both dates set is current on a day exactly when it is
\* active and start_date <= today <= end_date, both bounds included; a year
\* that is not active is never current.
C17_IsCurrent ==
    resp.op = "is_current"
        => LET year == academic_years[resp.pk]
           IN  /\ (year.start_date \in Days /\ year.end_date \in Days)
                      => /\ resp.detail = ""
                         /\ resp.body = (/\ year.is_active
                                         /\ year.start_date <= resp.arg
                                         /\ resp.arg <= year.end_date)
               /\ ~year.is_active => (resp.detail = "" /\ resp.body = FALSE)

\* An active year of several days is current on its first day.
C17_Witness ==
    /\ resp.op = "is_current"
    /\ academic_years[resp.pk].is_active
    /\ academic_years[resp.pk].start_date = resp.arg
    /\ academic_years[resp.pk].end_date > resp.arg
    /\ resp.body = TRUE

\* C18: activate on an id that resolves to no academic year answers not-found
\* (404) and changes no year: a year that was active stays active.
C18_ActivateUnresolvedChangesNothing ==
    [][(resp'.op = "activate" /\ resp'.pk \notin DOMAIN academic_years)
       => /\ resp'.status = 404
          /\ academic_years' = academic_years]_vars

\* activate was answered 404 while a year is active.
C18_Witness ==
    /\ resp.op = "activate"
    /\ resp.status = 404
    /\ resp.pk \notin DOMAIN academic_years
    /\ ActiveYears # {}

\* C19: a course write is rejected as a duplicate exactly when another course
\* of the same academic year has the code: a create that names a code and a
\* stored academic year passes the field validation if and only if no stored
\* course has that code in that year, and likewise an update of a stored
\* course against the other courses.
C19_CodeUniquePerAcademicYear ==
    \A data \in [code : Codes, academic_year : DOMAIN academic_years] :
        \A instance \in {None} \cup DOMAIN courses :
            CourseCreateUpdateSerializer_fields_valid(instance, data, FALSE)
                <=> ~ \E c \in DOMAIN courses \ {instance} :
                          /\ courses[c].code = data.code
                          /\ courses[c].academic_year = data.academic_year

\* A document create, update or partial update.
DocumentWrites == {"document_create", "document_update", "document_partial_update"}

\* C20: whatever student-document create, update and delete requests were
\* served, no two stored documents have the same student and the same
\* document_type; a create or update that would store a pair another
\* document holds is rejected (400) and leaves the documents as they were,
\* as does every other rejected write.
C20_OneDocumentPerStudentAndType ==
    /\ [](\A d1, d2 \in DOMAIN documents :
             (d1 # d2) => ~ /\ documents[d1].student = documents[d2].student
                            /\ documents[d1].document_type = documents[d2].document_type)
    /\ [][resp'.op \in DocumentWrites
           => LET instance == IF resp'.op = "document_create" THEN None ELSE resp'.pk
                  data == resp'.arg
                  student == Field(data, "student",
                                   IF instance \in DOMAIN documents
                                   THEN documents[instance].student ELSE None)
                  type == Field(data, "document_type",
                                IF instance \in DOMAIN documents
                                THEN documents[instance].document_type ELSE "")
              IN  /\ (/\ instance = None \/ instance \in DOMAIN documents
                      /\ \E d \in DOMAIN documents \ {instance} :
                             /\ documents[d].student = student
                             /\ documents[d].document_type = type)
                     => resp'.status = 400
                  /\ resp'.status \notin {200, 201} => documents' = documents]_vars

\* An update that would give a student a second document of a type was
\* rejected, the student having two documents of different types.
C20_Witness ==
    /\ resp.op \in {"document_update", "document_partial_update"}
    /\ resp.status = 400
    /\ resp.detail = "unique"
    /\ \E d \in DOMAIN documents \ {resp.pk} :
           /\ documents[d].student = documents[resp.pk].student
           /\ documents[d].document_type # documents[resp.pk].document_type
           /\ "document_type" \in DOMAIN resp.arg
           /\ resp.arg["document_type"] = documents[d].document_type

\* C21: the circular-reference check is read-only and deterministic: no step
\* of it changes a course or an edge, and a top-level call made with the
\* course and the prerequisite of the call before it returns what that call
\* returned.
C21_CheckReadOnlyAndDeterministic ==
    /\ [][courses' = courses /\ academic_years' = academic_years]_vars
    /\ []((/\ check_done
           /\ resp.op = "_check_circular_reference"
           /\ resp.pk = chk.course
           /\ resp.arg = chk.prerequisite)
          => chk.ret = resp.detail)

\* The second of two calls with the same course and prerequisite has found
\* the circular reference, as the first did.
C21_Witness ==
    /\ check_done
    /\ resp.op = "_check_circular_reference"
    /\ resp.pk = chk.course
    /\ resp.arg = chk.prerequisite
    /\ resp.detail = "True"
    /\ chk.ret = "True"

\* C22: with add_prerequisite requests running concurrently, their checks
\* and their writes interleaved, no two courses are ever prerequisites of
\* each other.
C22_ConcurrentAddsNeverMutual ==
    \A a, b \in DOMAIN courses :
        ~(b \in courses[a].prerequisites /\ a \in courses[b].prerequisites)

\* C23: with the course API's requests served one at a time, no course is
\* its own prerequisite and no two courses are prerequisites of each other.
C23_NoCycleOfLengthOneOrTwo ==
    \A a \in DOMAIN courses :
        /\ a \notin courses[a].prerequisites
        /\ \A b \in courses[a].prerequisites : a \notin Prerequisites(b)

\* An update was rejected as circular: one of the prerequisites it proposed
\* has the course as a prerequisite.
C23_Witness ==
    /\ resp.op \in {"course_update", "course_partial_update"}
    /\ resp.status = 400
    /\ resp.detail = "circular"
    /\ \E b \in DOMAIN courses : resp.pk \in courses[b].prerequisites
    /\ courses[resp.pk].prerequisites # {}

\* C24: in every state reached through the academic-year API, the current
\* query returns the one active year, or not-found (404) when no year is
\* active; it never fails on several active years.
C24_CurrentHasDefinedOutcome ==
    resp.op = "current"
        => \/ resp.status = 404 /\ ActiveYears = {}
           \/ resp.status = 200 /\ ActiveYears = {resp.pk}

\* C25: every prerequisite edge joins two stored courses, whatever courses
\* and academic years were deleted, and Y is among X's prerequisites exactly
\* when X is among the courses Y is required for.
C25_NoDanglingEdges ==
    /\ \A x \in DOMAIN courses : courses[x].prerequisites \subseteq DOMAIN courses
    /\ \A y \in CourseIds : required_for_all(y) \subseteq DOMAIN courses
    /\ \A y \in CourseIds : y \notin DOMAIN courses => required_for_all(y) = {}
    /\ \A x, y \in DOMAIN courses :
           y \in courses[x].prerequisites <=> x \in required_for_all(y)

\* A course was deleted and an edge between the courses left is still stored.
C25_Witness ==
    /\ resp.op = "course_destroy"
    /\ resp.status = 204
    /\ resp.pk \notin DOMAIN courses
    /\ \E x \in DOMAIN courses : courses[x].prerequisites # {}
====
